---- MODULE Spec2Model ----
(***************************************************************************)
(* Model of risk::BumpTime (src/src/risk/bumptime.rs): the time bump that  *)
(* shifts the spot date of a valuation model, after turning the fixings    *)
(* that fall between the old and the new spot date into a fixing table and *)
(* applying it to the list of instruments.                                 *)
(*                                                                         *)
(* One behaviour is one call of BumpTime::apply, taken statement by        *)
(* statement.  The collaborators the file only calls (PricingContext,      *)
(* DependencyCollector, FixingTable, fix_all, Bumpable) are modelled at    *)
(* their boundary: each fallible call either yields its value or fails.    *)
(***************************************************************************)
EXTENDS Integers, Sequences, FiniteSets, TLC

VARIABLES
    self,             \* the BumpTime: spot_date_bump and _ex_from
    instruments,      \* the caller's Vec<(f64, Rc<Instrument>)>
    bumpable,         \* the valuation model: spot date, dependencies, bumps applied
    pc,               \* the statement apply/update_instruments is at
    old_spot_date,    \* local of update_instruments (line 61)
    new_spot_date,    \* local of update_instruments (line 62)
    iter_ids,         \* identifiers instruments_iter() has yet to yield, current first
    iter_k,           \* index of the next fixing of the current identifier
    fixing_map,       \* local HashMap<String, Vec<(DateTime, f64)>> (line 68)
    fixing_table,     \* local FixingTable (line 93), <<>> while not built
    replacement,      \* local Vec returned by fix_all (line 94)
    modified,         \* result of update_instruments as seen by apply (line 39)
    saveable,         \* the saveable area of line 47: "none", "held" or "released"
    result,           \* what apply returned
    entry,            \* the portfolio and the model's spot date when apply was called
    log               \* the calls made on the collaborators, in order

vars == <<self, instruments, bumpable, pc, old_spot_date, new_spot_date, iter_ids,
          iter_k, fixing_map, fixing_table, replacement, modified, saveable, result,
          entry, log>>

(***************************************************************************)
(* Bounds of the model.                                                    *)
(***************************************************************************)
MaxDate == 2
MaxFixings == 2

(***************************************************************************)
(* Data.                                                                   *)
(***************************************************************************)
Dates == 0..MaxDate
TimesOfDay == {"Open", "Close"}
DateTimes == [date : Dates, time_of_day : TimesOfDay]
Ids == {"EUR", "USD"}
SpotDynamics == {"StickyForward", "StickySpot"}

\* DateTime::date(): the date part of a fixing's date-time (line 71).
date(fixing) == fixing.date

\* An instrument handle, and the fixings it has been restated with.
Inst(id) == [id |-> id, fixed |-> <<>>]

SeqsUpTo(S, n) == UNION {[1..m -> S] : m \in 0..n}

\* The fixings of a DependencyCollector: for each identifier, the date-times
\* it depends on.
DependencyFixings ==
    {f \in [Ids -> SeqsUpTo(DateTimes, MaxFixings)] :
        Len(f["EUR"]) + Len(f["USD"]) <= MaxFixings}

Portfolios ==
    { <<>>,
      << <<1, Inst("EUR")>>, <<2, Inst("USD")>>, <<1, Inst("EUR")>> >> }

\* BumpSpotDate::new, as called by BumpTime::new.
BumpSpotDate(spot_date, spot_dynamics) ==
    [spot_date |-> spot_date, spot_dynamics |-> spot_dynamics]

\* BumpTime::new (lines 25-28).
New(spot_date, ex_from, spot_dynamics) ==
    [spot_date_bump |-> BumpSpotDate(spot_date, spot_dynamics), _ex_from |-> ex_from]

NoResult == [kind |-> "none", value |-> FALSE, stage |-> ""]
Ok(b) == [kind |-> "ok", value |-> b, stage |-> ""]
Err(stage) == [kind |-> "err", value |-> FALSE, stage |-> stage]

Call(op, arg, ok) == [op |-> op, arg |-> arg, ok |-> ok]

Init ==
    /\ \E sd \in Dates, dyn \in SpotDynamics : self = New(sd, sd, dyn)
    /\ instruments \in Portfolios
    /\ \E sd \in Dates, f \in DependencyFixings :
         bumpable = [spot_date |-> sd, fixings |-> f, bumps |-> <<>>]
    /\ pc = "apply"
    /\ old_spot_date = 0
    /\ new_spot_date = 0
    /\ iter_ids = <<>>
    /\ iter_k = 1
    /\ fixing_map = <<>>
    /\ fixing_table = <<>>
    /\ replacement = <<>>
    /\ modified = FALSE
    /\ saveable = "none"
    /\ result = NoResult
    /\ entry = [instruments |-> instruments, spot_date |-> bumpable.spot_date]
    /\ log = <<>>

(***************************************************************************)
(* Collaborators, at their boundary.                                       *)
(***************************************************************************)

\* PricingContext::spot(id): the spot level of an underlying, when resolved.
spot(id) == IF id = "EUR" THEN 110 ELSE 95

\* PricingContext::forward_curve(instrument, high_water_mark): the curve of
\* an instrument anchored at a date, when resolved.
forward_curve(inst, anchor) == [instrument |-> inst, anchor |-> anchor]

\* Forward::forward(date): the forward of a curve on a date, when resolved.
forward(curve, d) == 1000 * spot(curve.instrument.id) + 10 * curve.anchor + d

\* DependencyCollector::instruments_iter(): the identifiers tracked, each
\* with its instrument; the order of a HashMap's iteration is any order.
Orders(S) ==
    {p \in [1..Cardinality(S) -> S] : \A i, j \in 1..Cardinality(S) : p[i] = p[j] => i = j}
instruments_iter == Orders(Ids)
instrument_of(id) == Inst(id)

\* DependencyCollector::fixings(id).
fixings(id) == bumpable.fixings[id]

\* FixingTable::from_map(date, fixings), when it succeeds.
from_map(anchor, map) == [date |-> anchor, fixings |-> map]

\* instruments::fix_all(instruments, fixing_table), when it succeeds: every
\* instrument with fixings in the table is restated with them.
fix(inst, table) ==
    IF inst.id \in DOMAIN table.fixings
    THEN [inst EXCEPT !.fixed = @ \o table.fixings[inst.id]]
    ELSE inst
fix_all(insts, table) ==
    [i \in 1..Len(insts) |-> <<insts[i][1], fix(insts[i][2], table)>>]

(***************************************************************************)
(* The pieces of update_instruments and apply.                             *)
(***************************************************************************)

InWindowInclusive(d, old, new) == d >= old /\ d <= new
InWindowNoUpperBound(d, old, new) == d >= old
\* line 72: date >= old_spot_date && date < new_spot_date
InWindow(d, old, new) == d >= old /\ d < new

CurveAnchorOld == old_spot_date
\* line 78: the date the forward curve is asked for
CurveAnchor == new_spot_date

\* lines 84-85: fixing_map.entry(id).or_insert(Vec::new()).push(x)
Push(map, id, x) ==
    IF id \in DOMAIN map
    THEN [map EXCEPT ![id] = Append(@, x)]
    ELSE map @@ (id :> <<x>>)

AnyChangesNegated(map) == DOMAIN map = {}
\* line 91: !fixing_map.is_empty()
AnyChanges(map) == DOMAIN map # {}

clear_nothing(v) == v
\* line 95: Vec::clear
clear(v) == <<>>

\* line 96: Vec::append
append(v, other) == v \o other

InPlaceAlways(m) == TRUE
\* line 46: if !modified
InPlace(m) == ~m

BumpNewSpotDateForward(spot_date_bump) ==
    [kind |-> "SpotDate",
     bump |-> BumpSpotDate(spot_date_bump.spot_date, "StickyForward")]
\* line 48: Bump::new_spot_date(self.spot_date_bump.clone())
BumpNewSpotDate(spot_date_bump) == [kind |-> "SpotDate", bump |-> spot_date_bump]

leak(s) == s
\* the saveable box goes out of scope: at the end of the block (line 50), or
\* when the ? of line 49 returns early
drop(s) == IF s = "held" THEN "released" ELSE s

\* Bumpable::bump with a spot date bump, when it succeeds: the model moves to
\* the bump's spot date.
bump(model, b) ==
    [model EXCEPT !.spot_date = b.bump.spot_date, !.bumps = Append(@, b)]

\* An error leaves apply through a ? operator.
Return(r) ==
    /\ pc' = "done"
    /\ result' = r

locals == <<old_spot_date, new_spot_date, iter_ids, iter_k, fixing_map,
            fixing_table, replacement, modified>>

(***************************************************************************)
(* apply, lines 39-40 and 61-68: the context and the dependencies are      *)
(* fetched, update_instruments is entered and its locals are set.          *)
(***************************************************************************)
Apply ==
    /\ pc = "apply"
    /\ \/ /\ log' = log \o <<Call("context", <<>>, TRUE), Call("dependencies", <<>>, FALSE)>>
          /\ Return(Err("dependencies"))
          /\ UNCHANGED <<self, instruments, bumpable, locals, saveable, entry>>
       \/ /\ log' = log \o <<Call("context", <<>>, TRUE), Call("dependencies", <<>>, TRUE)>>
          /\ old_spot_date' = bumpable.spot_date
          /\ new_spot_date' = self.spot_date_bump.spot_date
          /\ fixing_map' = <<>>
          /\ iter_ids' \in instruments_iter
          /\ iter_k' = 1
          /\ pc' = "scan"
          /\ UNCHANGED <<self, instruments, bumpable, fixing_table, replacement,
                         modified, saveable, result, entry>>

(***************************************************************************)
(* line 69: the outer loop moves to the next identifier once the fixings   *)
(* of the current one are exhausted.                                       *)
(***************************************************************************)
NextInstrument ==
    /\ pc = "scan"
    /\ iter_ids # <<>>
    /\ iter_k > Len(fixings(Head(iter_ids)))
    /\ iter_ids' = Tail(iter_ids)
    /\ iter_k' = 1
    /\ UNCHANGED <<self, instruments, bumpable, pc, old_spot_date, new_spot_date,
                   fixing_map, fixing_table, replacement, modified, saveable,
                   result, entry, log>>

SwallowResolutionFailure(stage) ==
    /\ iter_k' = iter_k + 1
    /\ UNCHANGED <<pc, result>>
\* lines 78, 79, 81: the ? of a failed resolution returns the error
ResolutionFailure(stage) ==
    /\ Return(Err(stage))
    /\ UNCHANGED iter_k

(***************************************************************************)
(* lines 70-87: one fixing of the current identifier.                      *)
(***************************************************************************)
ScanFixing ==
    /\ pc = "scan"
    /\ iter_ids # <<>>
    /\ iter_k <= Len(fixings(Head(iter_ids)))
    /\ LET id == Head(iter_ids)
           instrument == instrument_of(id)
           fixing == fixings(id)[iter_k]
           d == date(fixing)
           curve == forward_curve(instrument, CurveAnchor)
           curve_arg == <<instrument, CurveAnchor>>
       IN  IF ~InWindow(d, old_spot_date, new_spot_date)
           THEN /\ iter_k' = iter_k + 1
                /\ UNCHANGED <<pc, result, fixing_map, log>>
           ELSE IF self.spot_date_bump.spot_dynamics = "StickyForward"
           THEN \/ /\ log' = Append(log, Call("forward_curve", curve_arg, FALSE))
                   /\ ResolutionFailure("forward_curve")
                   /\ UNCHANGED fixing_map
                \/ /\ log' = log \o <<Call("forward_curve", curve_arg, TRUE),
                                      Call("forward", d, FALSE)>>
                   /\ ResolutionFailure("forward")
                   /\ UNCHANGED fixing_map
                \/ /\ log' = log \o <<Call("forward_curve", curve_arg, TRUE),
                                      Call("forward", d, TRUE)>>
                   /\ fixing_map' = Push(fixing_map, id, <<fixing, forward(curve, d)>>)
                   /\ iter_k' = iter_k + 1
                   /\ UNCHANGED <<pc, result>>
           ELSE \/ /\ log' = Append(log, Call("spot", id, FALSE))
                   /\ ResolutionFailure("spot")
                   /\ UNCHANGED fixing_map
                \/ /\ log' = Append(log, Call("spot", id, TRUE))
                   /\ fixing_map' = Push(fixing_map, id, <<fixing, spot(id)>>)
                   /\ iter_k' = iter_k + 1
                   /\ UNCHANGED <<pc, result>>
    /\ UNCHANGED <<self, instruments, bumpable, old_spot_date, new_spot_date,
                   iter_ids, fixing_table, replacement, modified, saveable, entry>>

(***************************************************************************)
(* lines 91-92 and 99: the loops are over; with no fixing collected        *)
(* update_instruments returns Ok(false) to line 39.                        *)
(***************************************************************************)
EndScan ==
    /\ pc = "scan"
    /\ iter_ids = <<>>
    /\ IF AnyChanges(fixing_map)
       THEN pc' = "from_map"
       ELSE pc' = "modified"
    /\ modified' = FALSE
    /\ UNCHANGED <<self, instruments, bumpable, old_spot_date, new_spot_date,
                   iter_ids, iter_k, fixing_map, fixing_table, replacement,
                   saveable, result, entry, log>>

(***************************************************************************)
(* line 93: FixingTable::from_map(new_spot_date, &fixing_map)?             *)
(***************************************************************************)
FromMap ==
    /\ pc = "from_map"
    /\ \/ /\ log' = Append(log, Call("from_map", <<new_spot_date, fixing_map>>, FALSE))
          /\ Return(Err("from_map"))
          /\ UNCHANGED fixing_table
       \/ /\ log' = Append(log, Call("from_map", <<new_spot_date, fixing_map>>, TRUE))
          /\ fixing_table' = from_map(new_spot_date, fixing_map)
          /\ pc' = "fix_all"
          /\ UNCHANGED result
    /\ UNCHANGED <<self, instruments, bumpable, old_spot_date, new_spot_date,
                   iter_ids, iter_k, fixing_map, replacement, modified, saveable,
                   entry>>

FixAllAfterClear ==
    /\ pc = "fix_all"
    /\ instruments' = clear(instruments)
    /\ \/ /\ log' = Append(log, Call("fix_all", <<instruments', fixing_table>>, FALSE))
          /\ Return(Err("fix_all"))
          /\ UNCHANGED replacement
       \/ /\ log' = Append(log, Call("fix_all", <<instruments', fixing_table>>, TRUE))
          /\ replacement' = fix_all(instruments', fixing_table)
          /\ pc' = "clear"
          /\ UNCHANGED result
    /\ UNCHANGED <<self, bumpable, old_spot_date, new_spot_date,
                   iter_ids, iter_k, fixing_map, fixing_table, modified, saveable,
                   entry>>
(***************************************************************************)
(* line 94: fix_all(instruments, &fixing_table)?                           *)
(***************************************************************************)
FixAll ==
    /\ pc = "fix_all"
    /\ \/ /\ log' = Append(log, Call("fix_all", <<instruments, fixing_table>>, FALSE))
          /\ Return(Err("fix_all"))
          /\ UNCHANGED replacement
       \/ /\ log' = Append(log, Call("fix_all", <<instruments, fixing_table>>, TRUE))
          /\ replacement' = fix_all(instruments, fixing_table)
          /\ pc' = "clear"
          /\ UNCHANGED result
    /\ UNCHANGED <<self, instruments, bumpable, old_spot_date, new_spot_date,
                   iter_ids, iter_k, fixing_map, fixing_table, modified, saveable,
                   entry>>

(***************************************************************************)
(* line 95: instruments.clear()                                            *)
(***************************************************************************)
Clear ==
    /\ pc = "clear"
    /\ instruments' = clear(instruments)
    /\ pc' = "append"
    /\ UNCHANGED <<self, bumpable, locals, saveable, result, entry, log>>

(***************************************************************************)
(* lines 96 and 99: instruments.append(&mut replacement), which empties    *)
(* the replacement, and update_instruments returns Ok(true) to line 39.    *)
(***************************************************************************)
AppendReplacement ==
    /\ pc = "append"
    /\ instruments' = append(instruments, replacement)
    /\ replacement' = <<>>
    /\ modified' = TRUE
    /\ pc' = "modified"
    /\ UNCHANGED <<self, bumpable, old_spot_date, new_spot_date, iter_ids, iter_k,
                   fixing_map, fixing_table, saveable, result, entry, log>>

(***************************************************************************)
(* lines 46 and 51: with the list modified apply returns Ok(true) without  *)
(* touching the model; otherwise it enters the block that bumps it.        *)
(***************************************************************************)
CheckModified ==
    /\ pc = "modified"
    /\ IF InPlace(modified)
       THEN pc' = "new_saveable" /\ UNCHANGED result
       ELSE Return(Ok(modified))
    /\ UNCHANGED <<self, instruments, bumpable, locals, saveable, entry, log>>

(***************************************************************************)
(* line 47: let mut saveable = bumpable.new_saveable()                     *)
(***************************************************************************)
NewSaveable ==
    /\ pc = "new_saveable"
    /\ saveable' = "held"
    /\ log' = Append(log, Call("new_saveable", <<>>, TRUE))
    /\ pc' = "bump"
    /\ UNCHANGED <<self, instruments, bumpable, locals, result, entry>>

(***************************************************************************)
(* lines 48-49: the spot date bump is built and applied to the model; a    *)
(* failure returns through ?, which drops the saveable.                    *)
(***************************************************************************)
Bump ==
    /\ pc = "bump"
    /\ LET b == BumpNewSpotDate(self.spot_date_bump)
       IN  \/ /\ log' = Append(log, Call("bump", b, FALSE))
              /\ Return(Err("bump"))
              /\ saveable' = drop(saveable)
              /\ UNCHANGED bumpable
           \/ /\ log' = Append(log, Call("bump", b, TRUE))
              /\ bumpable' = bump(bumpable, b)
              /\ pc' = "end_block"
              /\ UNCHANGED <<saveable, result>>
    /\ UNCHANGED <<self, instruments, locals, entry>>

(***************************************************************************)
(* lines 50-51: the block ends, the saveable is dropped, Ok(modified).     *)
(***************************************************************************)
EndBlock ==
    /\ pc = "end_block"
    /\ saveable' = drop(saveable)
    /\ Return(Ok(modified))
    /\ UNCHANGED <<self, instruments, bumpable, locals, entry, log>>

Next ==
    \/ Apply
    \/ NextInstrument
    \/ ScanFixing
    \/ EndScan
    \/ FromMap
    \/ FixAll
    \/ Clear
    \/ AppendReplacement
    \/ CheckModified
    \/ NewSaveable
    \/ Bump
    \/ EndBlock

Spec == Init /\ [][Next]_vars

(***************************************************************************)
(* Vocabulary of the properties.                                           *)
(***************************************************************************)

\* The calls of one operation made so far, in order.
Calls(op) == SelectSeq(log, LAMBDA c : c.op = op)

TargetDate == self.spot_date_bump.spot_date

\* A date lies between the spot date the call started from and the target.
Due(d) == entry.spot_date <= d /\ d < TargetDate

\* The dependency model has a fixing date in the window.
AnyDue == \E id \in Ids : \E k \in 1..Len(bumpable.fixings[id]) :
              Due(bumpable.fixings[id][k].date)

\* The fixing date-time dt has been collected under id in map.
Collected(map, id, dt) ==
    /\ id \in DOMAIN map
    /\ \E j \in 1..Len(map[id]) : map[id][j][1] = dt

DependsOn(id, dt) == \E k \in 1..Len(bumpable.fixings[id]) : bumpable.fixings[id][k] = dt

ScanStages == {"dependencies", "spot", "forward_curve", "forward"}

Returned == pc = "done"
ReturnedOk == pc = "done" /\ result.kind = "ok"
ReturnedErr == pc = "done" /\ result.kind = "err"

\* The model is as it was when apply was called.
ModelUntouched == bumpable.spot_date = entry.spot_date /\ bumpable.bumps = <<>>

\* A failed call is the last call made, and apply has returned its error.
FailedCallReturned(i) ==
    /\ i = Len(log)
    /\ pc = "done"
    /\ result = Err(log[i].op)

(***************************************************************************)
(* C1. Window correctness: in the fixing map handed to                     *)
(* FixingTable::from_map, a fixing date-time is collected under an         *)
(* identifier if and only if the identifier depends on it and its date d   *)
(* satisfies old_spot_date <= d < new_spot_date; a date equal to the new   *)
(* spot date or before the old one is never collected, a date equal to     *)
(* the old spot date is.                                                   *)
(***************************************************************************)
C1_WindowCorrectness ==
    \A i \in 1..Len(log) :
        log[i].op = "from_map" =>
            \A id \in Ids : \A dt \in DateTimes :
                Collected(log[i].arg[2], id, dt) <=> (DependsOn(id, dt) /\ Due(dt.date))

C1_Witness ==
    /\ Len(Calls("from_map")) = 1
    /\ \E id \in Ids : \E dt \in DateTimes :
          /\ DependsOn(id, dt)
          /\ dt.date = entry.spot_date
          /\ Collected(Calls("from_map")[1].arg[2], id, dt)
    /\ \E id \in Ids : \E dt \in DateTimes :
          /\ DependsOn(id, dt)
          /\ dt.date = TargetDate
          /\ ~Collected(Calls("from_map")[1].arg[2], id, dt)

(***************************************************************************)
(* C2. Rebuild signal: when apply does not fail, the boolean it returns is *)
(* true if and only if some dependency fixing date lies in                 *)
(* [old_spot_date, new_spot_date), and it is the boolean returned by       *)
(* update_instruments.                                                     *)
(***************************************************************************)
C2_RebuildSignal ==
    ReturnedOk => /\ result.value <=> AnyDue
                  /\ result.value = modified

C2_Witness ==
    /\ ReturnedOk
    /\ result.value
    /\ AnyDue
    /\ \E id \in Ids : \E k \in 1..Len(bumpable.fixings[id]) :
          ~Due(bumpable.fixings[id][k].date)

(***************************************************************************)
(* C3. No fixings: when no dependency fixing date lies in the window and   *)
(* apply succeeds, the portfolio is what it was before the call and        *)
(* bumpable.bump has been called exactly once, with the bump wrapping this *)
(* BumpTime's own spot date bump.                                          *)
(***************************************************************************)
C3_NoFixings ==
    (ReturnedOk /\ ~AnyDue) =>
        /\ instruments = entry.instruments
        /\ Len(Calls("bump")) = 1
        /\ Calls("bump")[1].arg = [kind |-> "SpotDate", bump |-> self.spot_date_bump]
        /\ Calls("bump")[1].ok

C3_Witness ==
    /\ ReturnedOk
    /\ ~AnyDue
    /\ ~result.value
    /\ entry.instruments # <<>>
    /\ self.spot_date_bump.spot_dynamics = "StickySpot"
    /\ \E id \in Ids : Len(bumpable.fixings[id]) > 0
    /\ TargetDate > entry.spot_date

(***************************************************************************)
(* C4. Full replacement: when a fixing falls in the window and apply       *)
(* succeeds, fix_all has been invoked exactly once, on the portfolio as it *)
(* was before the call, and the portfolio is exactly what it returned.     *)
(***************************************************************************)
C4_FullReplacement ==
    (ReturnedOk /\ AnyDue) =>
        /\ Len(Calls("fix_all")) = 1
        /\ Calls("fix_all")[1].arg[1] = entry.instruments
        /\ instruments = fix_all(entry.instruments, Calls("fix_all")[1].arg[2])

C4_Witness ==
    /\ ReturnedOk
    /\ AnyDue
    /\ entry.instruments # <<>>
    /\ instruments # entry.instruments
    /\ Len(instruments) = Len(entry.instruments)

(***************************************************************************)
(* C5. Failure atomicity: whenever apply returns an error, from whichever  *)
(* stage, the portfolio is what it was before the call; the replacement is *)
(* reached only after every fallible step of the rebuild path succeeded;   *)
(* and a failed step's error is what apply returns.                        *)
(***************************************************************************)
C5_FailureAtomicity ==
    /\ result.kind = "err" => instruments = entry.instruments
    /\ (pc \in {"clear", "append"} \/ instruments # entry.instruments) =>
           /\ \A i \in 1..Len(log) : log[i].ok
           /\ Len(Calls("from_map")) = 1
           /\ Len(Calls("fix_all")) = 1
    /\ \A i \in 1..Len(log) : ~log[i].ok => FailedCallReturned(i)

C5_Witness ==
    /\ ReturnedErr
    /\ result.stage = "fix_all"
    /\ entry.instruments # <<>>
    /\ instruments = entry.instruments

(***************************************************************************)
(* C6. Path exclusivity: the fixing table is built and fix_all is invoked  *)
(* only with a non-empty fixing map, new_saveable and bump are called only *)
(* with an empty one, and no call does both; when apply returns true the   *)
(* model has not been bumped; with an empty window no table is built and   *)
(* fix_all is not invoked.                                                 *)
(***************************************************************************)
RebuildCalls == Len(Calls("from_map")) + Len(Calls("fix_all"))
InPlaceCalls == Len(Calls("new_saveable")) + Len(Calls("bump"))

C6_PathExclusivity ==
    /\ ~(RebuildCalls > 0 /\ InPlaceCalls > 0)
    /\ RebuildCalls > 0 => DOMAIN fixing_map # {}
    /\ InPlaceCalls > 0 => DOMAIN fixing_map = {}
    /\ (ReturnedOk /\ result.value) => ModelUntouched
    /\ ~AnyDue => RebuildCalls = 0

C6_Witness ==
    /\ ReturnedOk
    /\ result.value
    /\ RebuildCalls = 2
    /\ InPlaceCalls = 0
    /\ bumpable.spot_date # TargetDate

(***************************************************************************)
(* C7. Scoped release: once apply has returned, with Ok or with an error,  *)
(* the saveable it acquired is no longer held; a saveable is acquired at   *)
(* most once, and only after the scan succeeded with an empty fixing map.  *)
(***************************************************************************)
C7_ScopedRelease ==
    /\ Returned => saveable # "held"
    /\ Len(Calls("new_saveable")) <= 1
    /\ saveable # "none" =>
          /\ Len(Calls("new_saveable")) = 1
          /\ DOMAIN fixing_map = {}
          /\ iter_ids = <<>>
          /\ \A i \in 1..Len(log) : log[i].op \in ScanStages => log[i].ok

C7_Witness ==
    /\ ReturnedErr
    /\ result.stage = "bump"
    /\ saveable = "released"

(***************************************************************************)
(* C8, as stated: when the target date is not after the old spot date, no  *)
(* fixing is collected, the portfolio is not changed and apply does        *)
(* nothing to the valuation model.                                         *)
(***************************************************************************)
C8_NonForwardNoWork ==
    TargetDate <= entry.spot_date =>
        /\ DOMAIN fixing_map = {}
        /\ instruments = entry.instruments
        /\ ModelUntouched
        /\ InPlaceCalls = 0

(***************************************************************************)
(* C8, amended: when the target date is not after the old spot date, no    *)
(* fixing is collected, no fixing table is built, fix_all is not invoked   *)
(* and the portfolio is not changed; apply still takes the in-place path:  *)
(* a call that succeeds returns false after bumping the model once to the  *)
(* target date.                                                            *)
(***************************************************************************)
C8_NonForwardInPlace ==
    TargetDate <= entry.spot_date =>
        /\ DOMAIN fixing_map = {}
        /\ RebuildCalls = 0
        /\ instruments = entry.instruments
        /\ ReturnedOk =>
              /\ ~result.value
              /\ Len(Calls("bump")) = 1
              /\ Calls("bump")[1].arg.bump = self.spot_date_bump
              /\ bumpable.spot_date = TargetDate

C8_Witness ==
    /\ ReturnedOk
    /\ TargetDate < entry.spot_date
    /\ bumpable.spot_date = TargetDate
    /\ Len(bumpable.bumps) = 1
    /\ \E id \in Ids : \E k \in 1..Len(bumpable.fixings[id]) :
          bumpable.fixings[id][k].date = TargetDate

(***************************************************************************)
(* C9. Policy valuation: every pair (fixing, value) collected under an     *)
(* identifier has, under StickySpot, the value context.spot(id), and under *)
(* StickyForward the forward, on the fixing's date, of the instrument's    *)
(* curve anchored at the new spot date; the context is asked for nothing   *)
(* else.                                                                   *)
(***************************************************************************)
C9_PolicyValuation ==
    /\ \A id \in DOMAIN fixing_map : \A j \in 1..Len(fixing_map[id]) :
          LET fixing == fixing_map[id][j][1]
              value == fixing_map[id][j][2]
          IN  IF self.spot_date_bump.spot_dynamics = "StickySpot"
              THEN value = spot(id)
              ELSE value = forward(forward_curve(Inst(id), TargetDate), fixing.date)
    /\ \A i \in 1..Len(log) :
          /\ log[i].op = "forward_curve" =>
                /\ self.spot_date_bump.spot_dynamics = "StickyForward"
                /\ log[i].arg[2] = TargetDate
          /\ log[i].op = "spot" => self.spot_date_bump.spot_dynamics = "StickySpot"

C9_Witness ==
    /\ self.spot_date_bump.spot_dynamics = "StickyForward"
    /\ \E id \in DOMAIN fixing_map :
          /\ Len(fixing_map[id]) = 2
          /\ fixing_map[id][1][1].date # fixing_map[id][2][1].date
          /\ fixing_map[id][1][2] # fixing_map[id][2][2]

(***************************************************************************)
(* C10. Fail-fast scanning: when dependencies() or the resolution of the   *)
(* value of an in-window fixing fails, apply returns that error at once:   *)
(* no fixing table is built, fix_all is not invoked, no saveable is        *)
(* acquired, bump is not called, and the portfolio and the model are as    *)
(* they were, also when other fixings had already been valued.             *)
(***************************************************************************)
C10_FailFastScanning ==
    /\ \A i \in 1..Len(log) :
          (log[i].op \in ScanStages /\ ~log[i].ok) => FailedCallReturned(i)
    /\ (result.kind = "err" /\ result.stage \in ScanStages) =>
          /\ pc = "done"
          /\ RebuildCalls = 0
          /\ InPlaceCalls = 0
          /\ saveable = "none"
          /\ fixing_table = <<>>
          /\ instruments = entry.instruments
          /\ ModelUntouched

C10_Witness ==
    /\ ReturnedErr
    /\ result.stage = "spot"
    /\ DOMAIN fixing_map # {}
    /\ entry.instruments # <<>>
====
